---- MODULE Spec2Model ----
(***************************************************************************)
(* gist-sync: the change-detection and incremental-sync engine.            *)
(* FileWatcher (src/src/watcher.ts), GistManager and ConfigManager         *)
(* (src/src/gist-manager.ts) modelled as a state machine over the public   *)
(* operations watchGroup / unwatchGroup / dispose, the timer and           *)
(* filesystem callbacks, and the replies of the remote store.              *)
(***************************************************************************)
EXTENDS Integers, Sequences, FiniteSets, TLC

(***************************************************************************)
(* Bounds of the exploration.                                              *)
(***************************************************************************)
MaxWrites == 1      \* file modifications by the user
MaxTasks  == 2      \* remote updates in flight at the same time
MaxClock  == 1      \* distinct readings of new Date()
MaxBurst  == 2      \* filesystem events coalesced into one debounce timer
MaxCalls  == 2      \* direct updateGist calls, one after the other
MaxChanges == 2     \* length of the changes list of a direct updateGist call
MaxGists  == 2      \* gists the remote store creates
MaxPaths  == 2      \* paths entered in one create command

(***************************************************************************)
(* The file system and the configured groups.  A path is its sequence of   *)
(* segments.  A content is a small integer; Missing stands for a file      *)
(* that does not exist or cannot be read.                                  *)
(***************************************************************************)
PathA == <<"tmp", "a.txt">>
PathB == <<"tmp", "b.txt">>
PathX == <<"tmp", "d", "x.txt">>
FolderD == <<"tmp", "d">>

Paths == {PathA, PathB, PathX}
PathOrder == <<PathA, PathB, PathX>>     \* directory traversal order
Missing == 0
Contents == {1, 2}
Undefined == -1

GroupNames == {"g1", "g2", "g3"}

\* FileGroup.files, FileGroup.folders, FileGroup.gistId
GroupFiles(g) ==
  CASE g = "g1" -> <<PathA, PathX>>
    [] g = "g2" -> <<PathB>>
    [] OTHER    -> <<PathA>>

GroupFolders(g) ==
  CASE g = "g1" -> <<FolderD>>
    [] OTHER    -> <<>>

NoGist == "none"

GistId(g) ==
  CASE g = "g1" -> "gist1"
    [] g = "g2" -> "gist2"
    [] OTHER    -> NoGist

Range(s) == {s[i] : i \in 1..Len(s)}

Min(a, b) == IF a < b THEN a ELSE b

\* path.basename
Basename(p) == p[Len(p)]

\* path.startsWith(folder), on segments
StartsWith(p, folder) ==
  /\ Len(folder) <= Len(p)
  /\ SubSeq(p, 1, Len(folder)) = folder

\* fs.readdirSync(folder, {recursive: true}) joined with the folder,
\* filtered by statSync(..).isFile()
FolderFiles(folder, fsNow) ==
  SelectSeq(PathOrder,
            LAMBDA p : /\ StartsWith(p, folder)
                       /\ Len(p) > Len(folder)
                       /\ fsNow[p] # Missing)

RECURSIVE FoldersFiles(_, _)
FoldersFiles(folders, fsNow) ==
  IF folders = <<>> THEN <<>>
  ELSE FolderFiles(Head(folders), fsNow) \o FoldersFiles(Tail(folders), fsNow)

\* the paths one detection pass visits, in the order of the two loops
EnumeratePaths(g, fsNow) ==
  GroupFiles(g) \o FoldersFiles(GroupFolders(g), fsNow)

\* the paths that belong to a group, whatever the file system holds
GroupPaths(g) ==
  Range(GroupFiles(g)) \cup
  {p \in Paths : \E i \in 1..Len(GroupFolders(g)) :
                    StartsWith(p, GroupFolders(g)[i]) /\ Len(p) > Len(GroupFolders(g)[i])}

(***************************************************************************)
(* Content Hasher.                                                         *)
(***************************************************************************)
NoHash == 0      \* the empty string calculateFileHash returns on failure

CalculateFileHash(content) ==
  IF content = Missing THEN NoHash ELSE 16 * content + 5

(***************************************************************************)
(* Hash-based detection: the two loops of checkAndUpdateFileHashes.        *)
(***************************************************************************)
\* group.fileHashes?.find(h => h.path === p): index of the first match, 0 if none
FindHash(hashes, p) ==
  IF \E i \in 1..Len(hashes) : hashes[i].path = p
  THEN CHOOSE i \in 1..Len(hashes) :
         /\ hashes[i].path = p
         /\ \A j \in 1..(i - 1) : hashes[j].path # p
  ELSE 0

\* one iteration of the loop body, a variant that re-stamps on carry-forward
HashStepRestamp(acc, p, old, fsNow, now) ==
  LET currentHash == CalculateFileHash(fsNow[p])
  IN  IF currentHash = NoHash THEN acc
      ELSE [changedFiles |-> IF FindHash(old, p) = 0 \/ old[FindHash(old, p)].hash # currentHash
                             THEN Append(acc.changedFiles, [path |-> p, content |-> fsNow[p]])
                             ELSE acc.changedFiles,
            newHashes |-> Append(acc.newHashes,
                                 [path |-> p, hash |-> currentHash, lastSync |-> now])]

\* one iteration of the loop body (lines 38-57, 68-87)
HashStep(acc, p, old, fsNow, now) ==
  LET currentHash == CalculateFileHash(fsNow[p])
      idx == FindHash(old, p)
  IN  IF currentHash = NoHash THEN acc
      ELSE IF idx = 0 \/ old[idx].hash # currentHash
           THEN [changedFiles |-> Append(acc.changedFiles, [path |-> p, content |-> fsNow[p]]),
                 newHashes |-> Append(acc.newHashes,
                                      [path |-> p, hash |-> currentHash, lastSync |-> now])]
           ELSE [changedFiles |-> acc.changedFiles,
                 newHashes |-> Append(acc.newHashes, old[idx])]

RECURSIVE HashLoop(_, _, _, _, _)
HashLoop(paths, acc, old, fsNow, now) ==
  IF paths = <<>> THEN acc
  ELSE HashLoop(Tail(paths), HashStep(acc, Head(paths), old, fsNow, now), old, fsNow, now)

\* changedFiles and newHashes as computed before the remote call
DetectAndUpdate(g, old, fsNow, now) ==
  HashLoop(EnumeratePaths(g, fsNow), [changedFiles |-> <<>>, newHashes |-> <<>>],
           old, fsNow, now)

(***************************************************************************)
(* Snapshot-based detection: the two loops of checkFileChanges.            *)
(***************************************************************************)
NoStates == [p \in Paths |-> Undefined]

\* one iteration of the loop body (lines 114-127, 138-151)
SnapshotStep(acc, p, fsNow) ==
  IF fsNow[p] = Missing THEN acc
  ELSE IF acc.states[p] # fsNow[p]
       THEN [changes |-> Append(acc.changes, [path |-> p, content |-> fsNow[p]]),
             states |-> [acc.states EXCEPT ![p] = fsNow[p]]]
       ELSE acc

RECURSIVE SnapshotLoop(_, _, _)
SnapshotLoop(paths, acc, fsNow) ==
  IF paths = <<>> THEN acc
  ELSE SnapshotLoop(Tail(paths), SnapshotStep(acc, Head(paths), fsNow), fsNow)

\* changes and the mutated groupStates
DetectChanges(g, states, fsNow) ==
  SnapshotLoop(EnumeratePaths(g, fsNow), [changes |-> <<>>, states |-> states], fsNow)

\* the initial file states watchGroup stores in interval mode (lines 176-209)
RECURSIVE SeedLoop(_, _, _)
SeedLoop(paths, states, fsNow) ==
  IF paths = <<>> THEN states
  ELSE SeedLoop(Tail(paths),
                IF fsNow[Head(paths)] = Missing THEN states
                ELSE [states EXCEPT ![Head(paths)] = fsNow[Head(paths)]],
                fsNow)

InitialStates(g, fsNow) == SeedLoop(EnumeratePaths(g, fsNow), NoStates, fsNow)

(***************************************************************************)
(* Remote Merge Engine: the file set updateGist sends.                     *)
(***************************************************************************)
Absent == -1
Names == {Basename(p) : p \in Paths}
Version == "1.0.0"
NoMeta == <<>>

\* JSON.stringify(metadata) and JSON.parse(content)
Stringify(metadata) == <<metadata.uploadDate, metadata.version, metadata.watchedFiles>>
Parse(text) == [uploadDate |-> text[1], version |-> text[2], watchedFiles |-> text[3]]

\* createMetadataFile(groupName, files): the content stored under #groupName
CreateMetadataFile(files, now) ==
  Stringify([uploadDate |-> now, version |-> Version, watchedFiles |-> files])

\* getGistMetadata: metadata?.watchedFiles || [] ; null when the file is
\* missing or the request failed
WatchedFilesOf(meta, ok) ==
  IF ok /\ meta # NoMeta THEN Parse(meta).watchedFiles ELSE <<>>

\* the last change written under a name wins (lines 96-98)
RECURSIVE ApplyChanges(_, _)
ApplyChanges(files, changes) ==
  IF changes = <<>> THEN files
  ELSE ApplyChanges([files EXCEPT ![Basename(Head(changes).path)] = Head(changes).content],
                    Tail(changes))

\* lines 85-107: metadata, the changed files, then every other file of the
\* fetched gist; Absent marks a name the request does not carry
BuildUpdate(currentGist, watchedFiles, changes, now) ==
  LET changed == ApplyChanges([n \in Names |-> Absent], changes)
  IN  [meta  |-> CreateMetadataFile(watchedFiles, now),
       files |-> [n \in Names |-> IF changed[n] # Absent THEN changed[n]
                                  ELSE currentGist.files[n]]]

\* octokit.gists.update: names the request carries replace, the rest stay
ApplyUpdate(doc, request) ==
  [meta  |-> request.meta,
   files |-> [n \in Names |-> IF request.files[n] # Absent THEN request.files[n]
                              ELSE doc.files[n]]]

\* the document createGist uploads (lines 50-59): metadata and group.files
RECURSIVE CreateFiles(_, _, _)
CreateFiles(files, paths, fsNow) ==
  IF paths = <<>> THEN files
  ELSE CreateFiles(IF fsNow[Head(paths)] = Missing THEN files
                   ELSE [files EXCEPT ![Basename(Head(paths))] = fsNow[Head(paths)]],
                   Tail(paths), fsNow)

CreateGist(g, fsNow, now) ==
  [meta  |-> CreateMetadataFile(GroupFiles(g), now),
   files |-> CreateFiles([n \in Names |-> Absent], GroupFiles(g), fsNow)]

(***************************************************************************)
(* The scheduler: FileWatcher's maps and the handles they refer to.        *)
(* A handle is a positive number; 0 in a map means no entry.               *)
(***************************************************************************)
VARIABLES
  fs,           \* the local files: path -> content, or Missing
  fileHashes,   \* group.fileHashes of the FileGroup objects in memory
  persisted,    \* fileHashes of each group as last written by saveConfig
  remote,       \* the gist of each group: metadata file and named files
  mode,         \* the --interval option of the watch command, passed to
                \* every watchGroup call
  sched,        \* watchers, intervalTimers, debounceTimers, fileStates and
                \* the live subscriptions, intervals and timeouts of the runtime
  tasks,        \* the updateGist calls in flight, oldest first
  clock,        \* the reading of new Date()
  thrown,       \* how the last watchGroup call of each group ended
  disposed,     \* dispose() has returned
  writes,       \* number of file modifications so far
  starts,       \* number of watchGroup calls per group
  burst,        \* events coalesced into the latest debounce timer of a group
  window,       \* per group: the paths of the events coalesced into its latest
                \* debounce timer, in the order of arrival
  unpushed,     \* per group: <<path, content>> detected by a pass whose push
                \* failed, not modified and not pushed since
  tickPushed,   \* per group: <<path, content>> pushed by an interval tick,
                \* not modified since
  cleanSince,   \* per group: a start-up pass succeeded and no path of the
                \* group was modified since it read the files
  lateCall,     \* an updateGist call was started after dispose()
  merges,       \* the updateGist calls made directly on the merge engine that
                \* have settled, oldest first: changes, outcome, document
  config,       \* the stored configuration the commands work on: githubToken
                \* and groups
  store,        \* the remote store: the gists that exist, by id, and the
                \* number of ids issued
  session,      \* the gist-sync command in progress, if any
  report        \* how the last command ended

vars == <<fs, fileHashes, persisted, remote, mode, sched, tasks, clock, thrown, disposed,
          writes, starts, burst, window, unpushed, tickPushed, cleanSince, lateCall, merges,
          config, store, session, report>>

\* the state of the commands create, remove, config and watch of cli.ts
cliVars == <<config, store, session, report>>

\* the state of one FileWatcher with its collaborators
watcherVars == <<fs, fileHashes, persisted, remote, mode, sched, tasks, clock, thrown,
                 disposed, writes, starts, burst, window, unpushed, tickPushed, cleanSince,
                 lateCall, merges>>

Modes == {"interval", "continuous"}

HasGist == {g \in GroupNames : GistId(g) # NoGist}

FreshId(used) ==
  CHOOSE i \in 1..(Cardinality(used) + 1) : i \notin used /\ \A j \in 1..(i - 1) : j \in used

Ids(handles) == {h.id : h \in handles}

RemoveAt(s, i) == SubSeq(s, 1, i - 1) \o SubSeq(s, i + 1, Len(s))

ChangePairs(changes) == {<<changes[i].path, changes[i].content>> : i \in 1..Len(changes)}

\* the files when the groups were created, and when the process starts:
\* the file of g2 has been deleted since
\* the files the user edits while the process runs
Writable == {PathA, PathX}

CreatedFs == [p \in Paths |-> 1]
InitialFs == [CreatedFs EXCEPT ![PathB] = Missing]

\* fileHashes as a previous run of the watch command left them, at time 0
SyncedHashes(g, fsNow) == DetectAndUpdate(g, <<>>, fsNow, 0).newHashes

\* no command in progress
NoSession ==
  [kind |-> "none", pc |-> "done", name |-> <<>>, files |-> <<>>, folders |-> <<>>,
   objects |-> <<>>, groups |-> <<>>]

\* no create or remove command has run or is in progress; the token is set
NoCommand ==
  /\ config = [githubToken |-> TRUE, groups |-> <<>>]
  /\ store = [issued |-> 0, gists |-> <<>>]
  /\ session = NoSession
  /\ report = "none"

\* a FileWatcher as constructed (lines 10-20): empty maps, nothing in flight;
\* the groups it is given are GroupFiles, GroupFolders and GistId
Constructed ==
  /\ sched = [watchers       |-> [g \in GroupNames |-> 0],
              intervalTimers |-> [g \in GroupNames |-> 0],
              debounceTimers |-> [g \in GroupNames |-> 0],
              fileStates     |-> [g \in GroupNames |-> [has |-> FALSE, map |-> NoStates]],
              liveWatchers   |-> {},
              liveIntervals  |-> {},
              armedTimers    |-> {}]
  /\ tasks = <<>>
  /\ clock = 1
  /\ thrown = [g \in GroupNames |-> "none"]
  /\ disposed = FALSE
  /\ writes = 0
  /\ starts = [g \in GroupNames |-> 0]
  /\ burst = [g \in GroupNames |-> 0]
  /\ window = [g \in GroupNames |-> <<>>]
  /\ unpushed = [g \in GroupNames |-> {}]
  /\ tickPushed = [g \in GroupNames |-> {}]
  /\ lateCall = FALSE
  /\ merges = <<>>

\* the process starts: the groups were created earlier (createGist at time
\* 0); g1 has never been watched, or a previous run has synced it
Init ==
  /\ fs = InitialFs
  /\ \E synced \in BOOLEAN :
       /\ fileHashes = [g \in GroupNames |->
                          IF g = "g1" /\ synced THEN SyncedHashes(g, fs) ELSE <<>>]
       /\ cleanSince = [g \in GroupNames |-> g = "g1" /\ synced]
  /\ persisted = fileHashes
  /\ remote = [g \in HasGist |-> CreateGist(g, CreatedFs, 0)]
  /\ mode \in Modes
  /\ Constructed
  /\ NoCommand

Tick == Min(clock + 1, MaxClock)

(***************************************************************************)
(* Operations on the scheduler's maps.                                     *)
(***************************************************************************)
\* setInterval and intervalTimers.set, after the initial file states
\* (lines 176-216)
ArmInterval(s, g, fsNow) ==
  LET id == FreshId(Ids(s.liveIntervals) \cup {s.intervalTimers[h] : h \in GroupNames \ {g}})
  IN  [s EXCEPT !.fileStates[g] = [has |-> TRUE, map |-> InitialStates(g, fsNow)],
                !.intervalTimers[g] = id,
                !.liveIntervals = @ \cup {[id |-> id, group |-> g]}]

\* chokidar.watch and watchers.set (lines 221-240)
ArmWatcher(s, g) ==
  LET id == FreshId(Ids(s.liveWatchers) \cup {s.watchers[h] : h \in GroupNames \ {g}})
  IN  [s EXCEPT !.watchers[g] = id,
                !.liveWatchers = @ \cup {[id |-> id, group |-> g]}]

Arm(s, g, how, fsNow) ==
  IF how = "interval" THEN ArmInterval(s, g, fsNow) ELSE ArmWatcher(s, g)

\* handleFileChange without the clearTimeout of the existing timer
HandleFileChangeNoClear(s, g, p) ==
  LET id == FreshId(Ids(s.armedTimers) \cup {s.debounceTimers[h] : h \in GroupNames \ {g}})
  IN  [s EXCEPT !.debounceTimers[g] = id,
                !.armedTimers = @ \cup {[id |-> id, group |-> g, path |-> p]}]

\* handleFileChange that re-arms the timer for the path the pending timer
\* was set for
HandleFileChangeKeepPath(s, g, p) ==
  LET kept == {t \in s.armedTimers : t.id # s.debounceTimers[g]}
      id == FreshId(Ids(kept) \cup {s.debounceTimers[h] : h \in GroupNames \ {g}})
      pending == {t \in s.armedTimers : t.id = s.debounceTimers[g]}
      path == IF pending = {} THEN p ELSE (CHOOSE t \in pending : TRUE).path
  IN  [s EXCEPT !.debounceTimers[g] = id,
                !.armedTimers = kept \cup {[id |-> id, group |-> g, path |-> path]}]

\* handleFileChange (lines 245-252, 285-286): clear the timer the map holds,
\* set a new one
HandleFileChange(s, g, p) ==
  LET kept == {t \in s.armedTimers : t.id # s.debounceTimers[g]}
      id == FreshId(Ids(kept) \cup {s.debounceTimers[h] : h \in GroupNames \ {g}})
  IN  [s EXCEPT !.debounceTimers[g] = id,
                !.armedTimers = kept \cup {[id |-> id, group |-> g, path |-> p]}]

\* dispose applied to one group only: a variant of unwatchGroup that clears all
UnwatchGroupAll(s, groupName) ==
  [s EXCEPT !.intervalTimers = [g \in GroupNames |-> 0],
            !.fileStates = [g \in GroupNames |-> [has |-> FALSE, map |-> NoStates]],
            !.liveIntervals = {h \in @ : \A g \in GroupNames : h.id # s.intervalTimers[g]},
            !.watchers = [g \in GroupNames |-> 0],
            !.liveWatchers = {h \in @ : \A g \in GroupNames : h.id # s.watchers[g]}]

\* unwatchGroup (lines 289-304)
UnwatchGroup(s, groupName) ==
  LET intervalTimer == s.intervalTimers[groupName]
      watcher == s.watchers[groupName]
      s1 == IF intervalTimer # 0
            THEN [s EXCEPT !.liveIntervals = {h \in @ : h.id # intervalTimer},
                           !.intervalTimers[groupName] = 0,
                           !.fileStates[groupName] = [has |-> FALSE, map |-> NoStates]]
            ELSE s
  IN  IF watcher # 0
      THEN [s1 EXCEPT !.liveWatchers = {h \in @ : h.id # watcher},
                      !.watchers[groupName] = 0]
      ELSE s1

\* dispose (lines 306-321)
DisposeAll(s) ==
  [s EXCEPT !.liveIntervals = {h \in @ : \A g \in GroupNames : h.id # s.intervalTimers[g]},
            !.intervalTimers = [g \in GroupNames |-> 0],
            !.fileStates = [g \in GroupNames |-> [has |-> FALSE, map |-> NoStates]],
            !.liveWatchers = {h \in @ : \A g \in GroupNames : h.id # s.watchers[g]},
            !.watchers = [g \in GroupNames |-> 0]]

(***************************************************************************)
(* The remote updates in flight.  A task is one updateGist call with the   *)
(* handler that awaits it: the start-up pass of watchGroup ("start"), an   *)
(* interval tick ("tick") or a debounced handler ("debounce").             *)
(***************************************************************************)
NoDoc == [meta |-> NoMeta, files |-> [n \in Names |-> Absent]]

NewTask(kind, g, how, changes, newHashes) ==
  [kind |-> kind, group |-> g, mode |-> how, changes |-> changes,
   newHashes |-> newHashes, pc |-> "get", request |-> NoDoc,
   touched |-> {}]

\* line 167: the group has a gist id
HasRemoteDocumentAlways(g) == TRUE

HasRemoteDocument(g) == GistId(g) # NoGist

\* watchGroup arming without waiting for the start-up pass
SchedAfterPassCallNoAwait(s, g, how, fsNow, pushing) == Arm(s, g, how, fsNow)

\* line 172: await checkAndUpdateFileHashes(group); the rest of watchGroup
\* runs at once only when the pass had nothing to push
SchedAfterPassCall(s, g, how, fsNow, pushing) ==
  IF pushing THEN s ELSE Arm(s, g, how, fsNow)

\* lines 264-279: replace the entry of the path, or append one
UpsertHash(hashes, p, hash, now) ==
  LET newHash == [path |-> p, hash |-> hash, lastSync |-> now]
      hashIndex == FindHash(hashes, p)
  IN  IF hashIndex > 0 THEN [hashes EXCEPT ![hashIndex] = newHash]
      ELSE Append(hashes, newHash)

\* what the handler makes of group.fileHashes once updateGist has resolved:
\* lines 98 (start-up pass), 265-281 (debounced handler), nothing (tick)
HashesOnSuccess(task, old, fsNow, now) ==
  CASE task.kind = "start" -> task.newHashes
    [] task.kind = "debounce" ->
         LET currentHash == CalculateFileHash(fsNow[task.changes[1].path])
         IN  IF currentHash # NoHash
             THEN UpsertHash(old, task.changes[1].path, currentHash, now)
             ELSE old
    [] OTHER -> old

\* a handler that records the hashes whether or not updateGist threw
HashesAfterUpdateAnyway(task, ok, old, fsNow, now) == HashesOnSuccess(task, old, fsNow, now)

\* group.fileHashes after the awaited updateGist: a rejection skips the
\* assignment (lines 97-99) or lands in the catch (lines 282-284)
HashesAfterUpdate(task, ok, old, fsNow, now) ==
  IF ok THEN HashesOnSuccess(task, old, fsNow, now) ELSE old

(***************************************************************************)
(* Actions.                                                                *)
(***************************************************************************)
\* the user modifies, creates or deletes a file
Modify(p, c) ==
  /\ ~disposed
  /\ writes < MaxWrites
  /\ c # fs[p]
  /\ fs' = [fs EXCEPT ![p] = c]
  /\ writes' = writes + 1
  /\ tasks' = [i \in 1..Len(tasks) |->
                 IF p \in GroupPaths(tasks[i].group)
                 THEN [tasks[i] EXCEPT !.touched = @ \cup {p}]
                 ELSE tasks[i]]
  /\ unpushed' = [g \in GroupNames |-> {x \in unpushed[g] : x[1] # p}]
  /\ tickPushed' = [g \in GroupNames |-> {x \in tickPushed[g] : x[1] # p}]
  /\ cleanSince' = [g \in GroupNames |-> cleanSince[g] /\ p \notin GroupPaths(g)]
  /\ UNCHANGED <<fileHashes, persisted, remote, mode, sched, clock, thrown, disposed,
                 starts, burst, window, lateCall, merges>>
  /\ UNCHANGED cliVars

\* watchGroup(group, intervalMinutes?) up to its first suspension
\* (lines 166-172, and 175-240 when the pass pushes nothing)
WatchGroup(g, limit) ==
  /\ ~disposed
  /\ starts[g] < limit
  /\ IF ~HasRemoteDocument(g)
     THEN /\ thrown' = [thrown EXCEPT ![g] = "NoRemoteDocument"]
          /\ UNCHANGED <<sched, tasks, clock, starts>>
     ELSE LET pass == DetectAndUpdate(g, fileHashes[g], fs, clock)
              pushing == Len(pass.changedFiles) > 0 /\ GistId(g) # NoGist
          IN  /\ pushing => Len(tasks) < MaxTasks
              /\ tasks' = IF pushing
                          THEN Append(tasks, NewTask("start", g, mode, pass.changedFiles,
                                                     pass.newHashes))
                          ELSE tasks
              /\ clock' = IF pushing THEN Tick ELSE clock
              /\ sched' = SchedAfterPassCall(sched, g, mode, fs, pushing)
              /\ thrown' = [thrown EXCEPT ![g] = "none"]
              /\ starts' = [starts EXCEPT ![g] = @ + 1]
  /\ UNCHANGED <<fs, fileHashes, persisted, remote, mode, disposed, writes, burst, window,
                 unpushed, tickPushed, cleanSince, lateCall, merges>>
  /\ UNCHANGED cliVars

\* updateGist lines 84-109: the gist is fetched, then its metadata (ok) or
\* getGistMetadata returns null; the file set is built and the update
\* request is sent.  The two fetches read the gist at one instant.
GistGet(i, ok) ==
  /\ tasks[i].pc = "get"
  /\ GistId(tasks[i].group) # NoGist
  /\ LET currentGist == remote[tasks[i].group]
         watchedFiles == WatchedFilesOf(currentGist.meta, ok)
     IN  tasks' = [tasks EXCEPT ![i].request = BuildUpdate(currentGist, watchedFiles,
                                                            tasks[i].changes, clock),
                                ![i].pc = "update"]
  /\ clock' = Tick
  /\ UNCHANGED <<fs, fileHashes, persisted, remote, mode, sched, thrown, disposed,
                 writes, starts, burst, window, unpushed, tickPushed, cleanSince, lateCall, merges>>
  /\ UNCHANGED cliVars

\* the awaited updateGist settles: resolved (ok) after the store applied the
\* request, or rejected; the handler's continuation runs
Settle(i, ok) ==
  LET task == tasks[i]
      g == task.group
      pairs == {x \in ChangePairs(task.changes) : x[1] \notin task.touched}
      newHashes == HashesAfterUpdate(task, ok, fileHashes[g], fs, clock)
  IN  /\ tasks' = RemoveAt(tasks, i)
      /\ remote' = IF ok THEN [remote EXCEPT ![g] = ApplyUpdate(@, task.request)] ELSE remote
      /\ fileHashes' = [fileHashes EXCEPT ![g] = newHashes]
      /\ persisted' = IF newHashes # fileHashes[g] \/ (ok /\ task.kind = "start")
                      THEN fileHashes' ELSE persisted
      /\ clock' = IF ok /\ task.kind = "debounce" THEN Tick ELSE clock
      /\ sched' = IF ok /\ task.kind = "start" THEN Arm(sched, g, task.mode, fs) ELSE sched
      /\ thrown' = IF ~ok /\ task.kind = "start"
                   THEN [thrown EXCEPT ![g] = "RemoteStoreFailure"] ELSE thrown
      /\ unpushed' = [unpushed EXCEPT ![g] =
                        IF ok THEN @ \ ChangePairs(task.changes)
                        ELSE IF task.kind \in {"start", "tick"} THEN @ \cup pairs ELSE @]
      /\ tickPushed' = [tickPushed EXCEPT ![g] =
                          IF ok /\ task.kind = "tick" THEN @ \cup pairs ELSE @]
      /\ cleanSince' = [cleanSince EXCEPT ![g] =
                          IF ok /\ task.kind = "start" THEN task.touched = {} ELSE @]
      /\ merges' = IF task.kind = "call"
                    THEN Append(merges, [changes |-> task.changes, ok |-> ok,
                                         doc |-> remote'[g]])
                    ELSE merges
      /\ UNCHANGED <<fs, mode, disposed, writes, starts, burst, window, lateCall>>
      /\ UNCHANGED cliVars

\* octokit.gists.update answers: lines 109-112, then the handler continues
GistUpdate(i) ==
  /\ tasks[i].pc = "update"
  /\ Settle(i, TRUE)

\* the fetch (line 84) or the update (line 109) fails: lines 113-116
GistFailure(i) ==
  /\ tasks[i].pc \in {"get", "update"}
  /\ Settle(i, FALSE)

\* the interval timer fires: checkFileChanges (lines 104-164, 212-214)
IntervalTick(h) ==
  LET g == h.group
      groupStates == IF sched.fileStates[g].has THEN sched.fileStates[g].map ELSE NoStates
      found == DetectChanges(g, groupStates, fs)
      pushing == Len(found.changes) > 0
  IN  /\ pushing => Len(tasks) < MaxTasks
      /\ sched' = [sched EXCEPT !.fileStates[g] = [has |-> TRUE, map |-> found.states]]
      /\ tasks' = IF pushing
                  THEN Append(tasks, NewTask("tick", g, "interval", found.changes, <<>>))
                  ELSE tasks
      /\ lateCall' = (lateCall \/ (disposed /\ pushing))
      /\ UNCHANGED <<fs, fileHashes, persisted, remote, mode, clock, thrown, disposed,
                     writes, starts, burst, window, unpushed, tickPushed, cleanSince, merges>>
      /\ UNCHANGED cliVars

\* chokidar reports 'change' or 'add' for a path of the group (lines 233-239)
FsEvent(h, kind, p) ==
  LET g == h.group
      pending == \E t \in sched.armedTimers : t.group = g
      qualifies == \/ kind = "change"
                   \/ \E i \in 1..Len(GroupFolders(g)) : StartsWith(p, GroupFolders(g)[i])
  IN  /\ fs[p] # Missing
      /\ pending => burst[g] < MaxBurst
      /\ sched' = IF qualifies THEN HandleFileChange(sched, g, p) ELSE sched
      /\ burst' = IF qualifies THEN [burst EXCEPT ![g] = IF pending THEN @ + 1 ELSE 1]
                   ELSE burst
      /\ window' = IF qualifies
                    THEN [window EXCEPT ![g] = IF pending THEN Append(@, p) ELSE <<p>>]
                    ELSE window
      /\ UNCHANGED <<fs, fileHashes, persisted, remote, mode, tasks, clock, thrown, disposed,
                     writes, starts, unpushed, tickPushed, cleanSince, lateCall, merges>>
      /\ UNCHANGED cliVars

\* the debounce delay elapsed: the timer callback (lines 253-262)
DebounceFire(t) ==
  LET g == t.group
      readable == fs[t.path] # Missing
  IN  /\ readable => Len(tasks) < MaxTasks
      /\ sched' = [sched EXCEPT !.armedTimers = @ \ {t}]
      /\ tasks' = IF readable
                  THEN Append(tasks, NewTask("debounce", g, "continuous",
                                             <<[path |-> t.path, content |-> fs[t.path]]>>,
                                             <<>>))
                  ELSE tasks
      /\ lateCall' = (lateCall \/ (disposed /\ readable))
      /\ UNCHANGED <<fs, fileHashes, persisted, remote, mode, clock, thrown, disposed,
                     writes, starts, burst, window, unpushed, tickPushed, cleanSince, merges>>
      /\ UNCHANGED cliVars

\* unwatchGroup(groupName)
Unwatch(g) ==
  /\ ~disposed
  /\ sched' = UnwatchGroup(sched, g)
  /\ UNCHANGED <<fs, fileHashes, persisted, remote, mode, tasks, clock, thrown, disposed,
                 writes, starts, burst, window, unpushed, tickPushed, cleanSince,
                 lateCall, merges>>
  /\ UNCHANGED cliVars

\* dispose()
Dispose ==
  /\ ~disposed
  /\ disposed' = TRUE
  /\ sched' = DisposeAll(sched)
  /\ UNCHANGED <<fs, fileHashes, persisted, remote, mode, tasks, clock, thrown,
                 writes, starts, burst, window, unpushed, tickPushed, cleanSince,
                 lateCall, merges>>
  /\ UNCHANGED cliVars

UserModifies == \E p \in Writable, c \in Contents \cup {Missing} : Modify(p, c)
\* the watch command starts every configured group once
\* (src/src/cli.ts lines 187-194)
Starts == \E g \in GroupNames : WatchGroup(g, 1)
Fetches == \E i \in 1..Len(tasks), ok \in BOOLEAN : GistGet(i, ok)
Updates == \E i \in 1..Len(tasks) : GistUpdate(i)
Fails == \E i \in 1..Len(tasks) : GistFailure(i)
Ticks == \E h \in sched.liveIntervals : IntervalTick(h)
Events == \E h \in sched.liveWatchers, kind \in {"change", "add"} :
            \E p \in GroupPaths(h.group) : FsEvent(h, kind, p)
Fires == \E t \in sched.armedTimers : DebounceFire(t)
Stops == \E g \in GroupNames : Unwatch(g)

Next ==
  \/ UserModifies
  \/ Starts
  \/ Fetches
  \/ Updates
  \/ Fails
  \/ Ticks
  \/ Events
  \/ Fires
  \/ Stops
  \/ Dispose

Spec == Init /\ [][Next]_vars

(***************************************************************************)
(* A later run of the watch command: an earlier run has synced g1, and     *)
(* /tmp/a.txt has been deleted since.                                      *)
(***************************************************************************)
DeletedFs == [InitialFs EXCEPT ![PathA] = Missing]

InitDeleted ==
  /\ fs = DeletedFs
  /\ fileHashes = [g \in GroupNames |->
                     IF g = "g1" THEN SyncedHashes(g, CreatedFs) ELSE <<>>]
  /\ persisted = fileHashes
  /\ remote = [g \in HasGist |-> CreateGist(g, CreatedFs, 0)]
  /\ mode \in Modes
  /\ cleanSince = [g \in GroupNames |-> FALSE]
  /\ Constructed
  /\ NoCommand

SpecDeleted == InitDeleted /\ [][Next]_vars

(***************************************************************************)
(* The Remote Merge Engine on its own: updateGist is called directly, one  *)
(* call after the other and with no other writer, on a gist in any state.  *)
(* The requests and replies are the actions GistGet, GistUpdate and        *)
(* GistFailure above.                                                      *)
(***************************************************************************)
\* the gists a call may find: with or without the metadata file, any files
Documents ==
  {[meta |-> m, files |-> f] :
     m \in {NoMeta, CreateMetadataFile(GroupFiles("g1"), 0)},
     f \in [Names -> Contents \cup {Absent}]}

\* the changes arguments: FileChange[] over the paths of the group
ChangeLists(g) ==
  UNION {[1..n -> [path : GroupPaths(g), content : Contents]] : n \in 1..MaxChanges}

InitMerge ==
  /\ fs = InitialFs
  /\ fileHashes = [g \in GroupNames |-> <<>>]
  /\ persisted = fileHashes
  /\ \E d \in Documents :
       remote = [g \in HasGist |-> IF g = "g1" THEN d ELSE CreateGist(g, CreatedFs, 0)]
  /\ mode = "continuous"
  /\ cleanSince = [g \in GroupNames |-> FALSE]
  /\ Constructed
  /\ NoCommand

\* updateGist(gistId, changes, groupName) is called (line 81) once the
\* previous call has settled
UpdateGistCall(g, changes) ==
  /\ tasks = <<>>
  /\ Len(merges) < MaxCalls
  /\ tasks' = <<NewTask("call", g, "direct", changes, <<>>)>>
  /\ UNCHANGED <<fs, fileHashes, persisted, remote, mode, sched, clock, thrown, disposed,
                 writes, starts, burst, window, unpushed, tickPushed, cleanSince, lateCall, merges>>
  /\ UNCHANGED cliVars

Calls == \E changes \in ChangeLists("g1") : UpdateGistCall("g1", changes)

NextMerge ==
  \/ Calls
  \/ Fetches
  \/ Updates
  \/ Fails

SpecMerge == InitMerge /\ [][NextMerge]_vars

(***************************************************************************)
(* The commands of src/src/cli.ts on the stored configuration: config,     *)
(* create, remove, and the watch command as far as it writes the           *)
(* configuration.  One gist-sync process runs at a time.  A group name is  *)
(* the sequence of its characters.                                         *)
(***************************************************************************)
NameG == <<"g">>
NameH == <<"h">>
NameSlash == <<"a", "/", "b">>
NoInput == <<>>

\* what the user may answer to the prompts
EnteredNames == {NameG, NameH, NameSlash, NoInput}
EnteredPaths == {PathA, PathB, FolderD, NoInput}

\* validate of the name prompt (line 49)
ValidName(input) == Len(input) > 0 /\ "/" \notin Range(input)

\* fs.statSync(path) (lines 81-88): a directory, a file, or it throws
StatSync(p, fsNow) ==
  IF p \in Paths
  THEN IF fsNow[p] # Missing THEN "file" ELSE "throws"
  ELSE IF \E q \in Paths : StartsWith(q, p) /\ Len(q) > Len(p) /\ fsNow[q] # Missing
       THEN "directory" ELSE "throws"

\* response.data.id (line 74): the id of the n-th gist the store creates
NewGistId(n) == "id" \o ToString(n)

\* createGist lines 50-59: the files of the request
CreateGistRequest(group, fsNow, now) ==
  [meta  |-> CreateMetadataFile(group.files, now),
   files |-> CreateFiles([n \in Names |-> Absent], group.files, fsNow)]

\* getGistMetadata (lines 33-46) on a fetched gist: the parsed metadata
\* file, or null
Null == <<>>
GetGistMetadata(gist) == IF gist.meta # NoMeta THEN Parse(gist.meta) ELSE Null

\* ConfigManager.getGroup, addGroup, removeGroup (lines 171-179, 189-191)
GetGroup(groups, name) ==
  groups[CHOOSE i \in 1..Len(groups) :
           /\ groups[i].name = name
           /\ \A j \in 1..(i - 1) : groups[j].name # name]

AddGroup(groups, group) == Append(groups, group)

RemoveGroup(groups, name) == SelectSeq(groups, LAMBDA g : g.name # name)

\* the create command that stores the group whatever createGist answers
AddGroupAfterCreateAnyway(groups, group, gistId, ok) ==
  AddGroup(groups, [group EXCEPT !.gistId = IF ok THEN gistId ELSE NoGist])

\* lines 108-116: group.gistId = gistId and addGroup, skipped when
\* createGist throws
AddGroupAfterCreate(groups, group, gistId, ok) ==
  IF ok THEN AddGroup(groups, [group EXCEPT !.gistId = gistId]) ELSE groups

\* a remove command that gives up when deleteGist throws
RemoveAfterDeleteOnSuccess(groups, name, ok) ==
  IF ok THEN RemoveGroup(groups, name) ELSE groups

\* lines 235-242: the catch only logs, removeGroup follows in both cases
RemoveAfterDelete(groups, name, ok) == RemoveGroup(groups, name)

\* ConfigManager.updateGroup (lines 181-187) on the array of group objects
\* held in memory: the first entry with that name becomes the object k
UpdateGroup(groups, objects, name, k) ==
  LET found == {i \in 1..Len(groups) : objects[groups[i]].name = name}
  IN  IF found = {} THEN groups
      ELSE [groups EXCEPT ![CHOOSE i \in found : \A j \in found : i <= j] = k]

\* what saveConfig writes (lines 154-160): the objects of the array
SaveConfig(groups, objects) == [i \in 1..Len(groups) |-> objects[groups[i]]]

\* the process starts with an empty configuration (loadConfig, line 151)
InitCli ==
  /\ fs = InitialFs
  /\ fileHashes = [g \in GroupNames |-> <<>>]
  /\ persisted = fileHashes
  /\ remote = [g \in HasGist |-> CreateGist(g, CreatedFs, 0)]
  /\ mode = "continuous"
  /\ cleanSince = [g \in GroupNames |-> FALSE]
  /\ Constructed
  /\ config = [githubToken |-> FALSE, groups |-> <<>>]
  /\ store = [issued |-> 0, gists |-> <<>>]
  /\ session = NoSession
  /\ report = "none"

\* gist-sync config (lines 26-38): the token is stored
ConfigCommand ==
  /\ session.kind = "none"
  /\ config' = [config EXCEPT !.githubToken = TRUE]
  /\ report' = "configured"
  /\ UNCHANGED <<store, session, watcherVars>>

\* gist-sync create starts and prompts for the name (line 44)
CreateCommand ==
  /\ session.kind = "none"
  /\ session' = [NoSession EXCEPT !.kind = "create", !.pc = "name"]
  /\ UNCHANGED <<config, store, report, watcherVars>>

\* the name prompt is answered: an invalid answer is asked again
AnswerName(input) ==
  /\ session.kind = "create"
  /\ session.pc = "name"
  /\ session' = IF ValidName(input)
                THEN [session EXCEPT !.name = input, !.pc = "paths"]
                ELSE session
  /\ UNCHANGED <<config, store, report, watcherVars>>

\* one round of the path loop (lines 62-92), and on its end the checks of
\* lines 94-103 and the call of createGist (line 109)
AnswerPath(input) ==
  /\ session.kind = "create"
  /\ session.pc = "paths"
  /\ input # NoInput => Len(session.files) + Len(session.folders) < MaxPaths
  /\ IF input = NoInput
     THEN IF Len(session.files) = 0 /\ Len(session.folders) = 0
          THEN UNCHANGED <<session, report>>
          ELSE IF ~config.githubToken
               THEN session' = NoSession /\ report' = "NoToken"
               ELSE session' = [session EXCEPT !.pc = "creating"] /\ UNCHANGED report
     ELSE /\ session' =
               CASE StatSync(input, fs) = "directory" ->
                      [session EXCEPT !.folders = Append(@, input)]
                 [] StatSync(input, fs) = "file" ->
                      [session EXCEPT !.files = Append(@, input)]
                 [] OTHER -> session
          /\ UNCHANGED report
  /\ UNCHANGED <<config, store, watcherVars>>

\* octokit.gists.create answers (lines 64-78), then lines 110-116
CreateGistReply(ok) ==
  /\ session.kind = "create"
  /\ session.pc = "creating"
  /\ ok => store.issued < MaxGists
  /\ LET group == [name |-> session.name, files |-> session.files,
                   folders |-> session.folders, gistId |-> NoGist, fileHashes |-> <<>>]
         gistId == NewGistId(store.issued + 1)
     IN  /\ store' = IF ok
                     THEN [issued |-> store.issued + 1,
                           gists |-> store.gists @@
                                     (gistId :> CreateGistRequest(group, fs, clock))]
                     ELSE store
         /\ config' = [config EXCEPT
                         !.groups = AddGroupAfterCreate(@, group, gistId, ok)]
  /\ report' = IF ok THEN "created" ELSE "CreateFailed"
  /\ session' = NoSession
  /\ UNCHANGED watcherVars

\* gist-sync remove (lines 211-234): the group is chosen and deleteGist is
\* called, or the group has no gist and is removed at once
RemoveCommand(groupName) ==
  /\ session.kind = "none"
  /\ Len(config.groups) > 0
  /\ \E i \in 1..Len(config.groups) : config.groups[i].name = groupName
  /\ IF GetGroup(config.groups, groupName).gistId # NoGist
     THEN IF ~config.githubToken
          THEN report' = "NoToken" /\ UNCHANGED <<config, session>>
          ELSE /\ session' = [NoSession EXCEPT !.kind = "remove", !.pc = "deleting",
                                               !.name = groupName]
               /\ UNCHANGED <<config, report>>
     ELSE /\ config' = [config EXCEPT !.groups = RemoveGroup(@, groupName)]
          /\ report' = "removed"
          /\ UNCHANGED session
  /\ UNCHANGED <<store, watcherVars>>

\* octokit.gists.delete answers (lines 119-128), then lines 237-243
DeleteGistReply(ok) ==
  /\ session.kind = "remove"
  /\ session.pc = "deleting"
  /\ LET gistId == GetGroup(config.groups, session.name).gistId
     IN  /\ ok => gistId \in DOMAIN store.gists
         /\ store' = IF ok
                     THEN [store EXCEPT
                             !.gists = [id \in DOMAIN store.gists \ {gistId} |->
                                          store.gists[id]]]
                     ELSE store
  /\ config' = [config EXCEPT !.groups = RemoveAfterDelete(@, session.name, ok)]
  /\ report' = IF ok THEN "removed" ELSE "removedDeleteFailed"
  /\ session' = NoSession
  /\ UNCHANGED watcherVars

\* gist-sync watch (lines 170-194): the groups of the loaded configuration
\* are the objects handed to watchGroup
WatchCommand ==
  /\ session.kind = "none"
  /\ config.githubToken
  /\ Len(config.groups) > 0
  /\ session' = [NoSession EXCEPT !.kind = "watch", !.pc = "watching",
                                  !.objects = config.groups,
                                  !.groups = [i \in 1..Len(config.groups) |-> i]]
  /\ UNCHANGED <<config, store, report, watcherVars>>

\* the hash pass of the group object k found changes and its updateGist
\* resolved (src/src/watcher.ts lines 96-100): the gist is updated, the
\* hashes are assigned and updateGroup saves the configuration
PassSucceeds(k) ==
  /\ session.kind = "watch"
  /\ k \in 1..Len(session.objects)
  /\ LET group == session.objects[k]
         paths == group.files \o FoldersFiles(group.folders, fs)
         pass == HashLoop(paths, [changedFiles |-> <<>>, newHashes |-> <<>>],
                          group.fileHashes, fs, clock)
         objects == [session.objects EXCEPT ![k].fileHashes = pass.newHashes]
         groups == UpdateGroup(session.groups, objects, group.name, k)
     IN  /\ group.gistId \in DOMAIN store.gists
         /\ Len(pass.changedFiles) > 0
         /\ store' = [store EXCEPT !.gists[group.gistId] =
                        ApplyUpdate(@, BuildUpdate(@, WatchedFilesOf(@.meta, TRUE),
                                                   pass.changedFiles, clock))]
         /\ session' = [session EXCEPT !.objects = objects, !.groups = groups]
         /\ config' = [config EXCEPT !.groups = SaveConfig(groups, objects)]
  /\ UNCHANGED <<report, watcherVars>>

\* SIGINT (lines 199-205): dispose and exit
ExitWatch ==
  /\ session.kind = "watch"
  /\ session' = NoSession
  /\ UNCHANGED <<config, store, report, watcherVars>>

AnswersName == \E input \in EnteredNames : AnswerName(input)
AnswersPath == \E input \in EnteredPaths : AnswerPath(input)
CreateReplies == \E ok \in BOOLEAN : CreateGistReply(ok)
Removes == \E groupName \in EnteredNames : RemoveCommand(groupName)
DeleteReplies == \E ok \in BOOLEAN : DeleteGistReply(ok)
Passes == \E k \in 1..Len(session.objects) : PassSucceeds(k)

NextCli ==
  \/ ConfigCommand
  \/ CreateCommand
  \/ AnswersName
  \/ AnswersPath
  \/ CreateReplies
  \/ Removes
  \/ DeleteReplies
  \/ WatchCommand
  \/ Passes
  \/ ExitWatch

SpecCli == InitCli /\ [][NextCli]_vars

(***************************************************************************)
(* Properties.                                                             *)
(***************************************************************************)
TimersOf(g) == {t \in sched.armedTimers : t.group = g}
TasksOf(g, kinds) == {i \in 1..Len(tasks) : tasks[i].group = g /\ tasks[i].kind \in kinds}
IsArmed(g) ==
  \/ \E h \in sched.liveWatchers : h.group = g
  \/ \E h \in sched.liveIntervals : h.group = g
ChangedPaths(changes) == {changes[i].path : i \in 1..Len(changes)}

\* the step is the firing of the debounce timer t
FiringOf(t) == t \in sched.armedTimers /\ sched'.armedTimers = sched.armedTimers \ {t}

\* the step starts an updateGist call of a debounced handler
DebouncedCallStarts ==
  /\ Len(tasks') = Len(tasks) + 1
  /\ tasks'[Len(tasks')].kind = "debounce"

\* the one-file updateGist call the firing of t makes
DebouncedCall(t) ==
  NewTask("debounce", t.group, "continuous",
          <<[path |-> t.path, content |-> fs[t.path]]>>, <<>>)

\* C1 as stated: a group never has two pending debounce timers, updateGist
\* is called for a burst of events only when the timer fires, and every
\* firing makes exactly one updateGist call.
C1_EveryBurstMakesOneCall ==
  /\ [](\A g \in GroupNames : Cardinality(TimersOf(g)) <= 1)
  /\ [][/\ DebouncedCallStarts => \E t \in sched.armedTimers : FiringOf(t)
        /\ \A t \in sched.armedTimers :
             FiringOf(t) => tasks' = Append(tasks, DebouncedCall(t))]_vars

\* C1 (amended): a group never has two pending debounce timers, updateGist
\* is called for a burst of events only when the timer fires, and a firing
\* makes exactly one updateGist call, for the last path of the burst with
\* its content at that moment, when that file can be read, and none when
\* it cannot.
C1_DebounceCoalescing ==
  /\ [](\A g \in GroupNames : Cardinality(TimersOf(g)) <= 1)
  /\ [][/\ DebouncedCallStarts => \E t \in sched.armedTimers : FiringOf(t)
        /\ \A t \in sched.armedTimers :
             FiringOf(t) => IF fs[t.path] # Missing
                            THEN tasks' = Append(tasks, DebouncedCall(t))
                            ELSE tasks' = tasks]_vars

\* a burst of at least two events on g1 has ended in one firing, whose
\* updateGist call is the only one in flight
C1_Witness ==
  /\ burst["g1"] >= 2
  /\ TimersOf("g1") = {}
  /\ Len(tasks) = 1
  /\ tasks[1].kind = "debounce"
  /\ tasks[1].group = "g1"

\* the step is the successful end of the updateGist call of task i
UpdateSucceeds(i) ==
  /\ tasks[i].pc = "update"
  /\ tasks' = RemoveAt(tasks, i)
  /\ remote' = [remote EXCEPT ![tasks[i].group] = ApplyUpdate(@, tasks[i].request)]
  /\ thrown' = thrown

\* C2: fileHashes of a group, in memory and as persisted, change only in a
\* step in which an updateGist call of that group returns successfully; a
\* failed updateGist leaves both as they were.
C2_PersistOnlyAfterSuccess ==
  [][\A g \in GroupNames :
       (fileHashes'[g] # fileHashes[g] \/ persisted'[g] # persisted[g])
         => \E i \in 1..Len(tasks) : tasks[i].group = g /\ UpdateSucceeds(i)]_vars

\* the start-up pass of g1 found changes, its updateGist failed, and the
\* hashes are still those of before the pass
C2_Witness ==
  /\ thrown["g1"] = "RemoteStoreFailure"
  /\ unpushed["g1"] # {}
  /\ fileHashes["g1"] = <<>>
  /\ persisted["g1"] = <<>>

\* C3 as stated: a change detected by a pass whose push failed is reported
\* again, with the same content, by the next detection pass of the group
\* (the next tick while the interval timer is armed, the next hash pass
\* otherwise) when the file has not been modified in between.
C3_FailedPushIsRetried ==
  \A g \in HasGist : \A x \in unpushed[g] :
    IF sched.intervalTimers[g] # 0
    THEN x \in ChangePairs(DetectChanges(g, sched.fileStates[g].map, fs).changes)
    ELSE x \in ChangePairs(DetectAndUpdate(g, fileHashes[g], fs, clock).changedFiles)

\* C4 as stated: a group never has two sync handlers (debounced handlers or
\* interval ticks) between their remote fetch and the end of their update.
C4_HandlersOfAGroupAreSerialized ==
  \A g \in GroupNames : Cardinality(TasksOf(g, {"tick", "debounce"})) <= 1

\* C5 as stated: once dispose() has returned nothing is armed, pending
\* debounce timers included, and no updateGist call is started.
C5_DisposeHaltsEverything ==
  disposed =>
    /\ sched.liveIntervals = {}
    /\ sched.liveWatchers = {}
    /\ sched.armedTimers = {}
    /\ ~lateCall

\* what watchGroup may not touch when it rejects a group without gist id
NothingElseChanges ==
  UNCHANGED <<fs, fileHashes, persisted, remote, mode, sched, tasks, clock, disposed,
              writes, starts, burst, window, unpushed, tickPushed, cleanSince, lateCall, merges,
              cliVars>>

\* C6: watchGroup on a group without gist id ends with the NoRemoteDocument
\* error and changes nothing else; such a group never has a map entry, a
\* timer, a subscription, a remote call or a changed fileHashes.
C6_NoRemoteDocument ==
  /\ [](\A g \in GroupNames \ HasGist :
          /\ thrown[g] \in {"none", "NoRemoteDocument"}
          /\ sched.watchers[g] = 0
          /\ sched.intervalTimers[g] = 0
          /\ sched.debounceTimers[g] = 0
          /\ ~sched.fileStates[g].has
          /\ ~IsArmed(g)
          /\ TimersOf(g) = {}
          /\ TasksOf(g, {"start", "tick", "debounce"}) = {}
          /\ fileHashes[g] = <<>>
          /\ persisted[g] = <<>>)
  /\ [][\A g \in GroupNames \ HasGist :
          thrown'[g] # thrown[g] =>
            thrown'[g] = "NoRemoteDocument" /\ NothingElseChanges]_vars

\* watchGroup was called on g3, which has no gist id
C6_Witness == thrown["g3"] = "NoRemoteDocument"

\* the step arms the interval timer or the subscription of g
Arming(g) ==
  \/ \E h \in sched'.liveWatchers \ sched.liveWatchers : h.group = g
  \/ \E h \in sched'.liveIntervals \ sched.liveIntervals : h.group = g

\* the step is the successful end of the start-up pass of g: the remote
\* update is done and the new hashes are persisted
StartupPassEnds(g) ==
  \E i \in TasksOf(g, {"start"}) :
    /\ UpdateSucceeds(i)
    /\ fileHashes'[g] = tasks[i].newHashes
    /\ persisted'[g] = tasks[i].newHashes

SchedOf(s, h) ==
  [watcher  |-> s.watchers[h],
   interval |-> s.intervalTimers[h],
   debounce |-> s.debounceTimers[h],
   states   |-> s.fileStates[h],
   live     |-> {x \in s.liveWatchers \cup s.liveIntervals : x.group = h},
   timers   |-> {t \in s.armedTimers : t.group = h}]

\* C8: unwatchGroup(g) changes nothing when g has no entry in the maps,
\* twice it leaves the state of once, and it leaves the maps, timers,
\* subscriptions and snapshot state of every other group as they are.
C8_StopIdempotentAndLocal ==
  \A g \in GroupNames :
    LET once == UnwatchGroup(sched, g)
    IN  /\ UnwatchGroup(once, g) = once
        /\ (sched.watchers[g] = 0 /\ sched.intervalTimers[g] = 0) => once = sched
        /\ ~\E h \in once.liveWatchers \cup once.liveIntervals : h.group = g
        /\ \A h \in GroupNames \ {g} : SchedOf(once, h) = SchedOf(sched, h)

\* g1 was armed and has been stopped while g2 is still armed
C8_Witness ==
  /\ ~disposed
  /\ starts["g1"] = 1
  /\ thrown["g1"] = "none"
  /\ TasksOf("g1", {"start"}) = {}
  /\ ~IsArmed("g1")
  /\ IsArmed("g2")

\* C9: in a hash pass a path whose bytes have the recorded fingerprint
\* keeps its entry, fingerprint and lastSync included, and is not in
\* changedFiles; a pass after a successful pass, with no modification of
\* the group's files since, finds nothing to push.
C9_UnchangedPathsCarriedForward ==
  \A g \in HasGist :
    LET old == fileHashes[g]
        pass == DetectAndUpdate(g, old, fs, clock)
    IN  /\ \A p \in Range(EnumeratePaths(g, fs)) :
             (/\ FindHash(old, p) # 0
              /\ fs[p] # Missing
              /\ old[FindHash(old, p)].hash = CalculateFileHash(fs[p]))
             => /\ p \notin ChangedPaths(pass.changedFiles)
                /\ old[FindHash(old, p)] \in Range(pass.newHashes)
                /\ \A e \in Range(pass.newHashes) : e.path = p => e = old[FindHash(old, p)]
        /\ cleanSince[g] => pass.changedFiles = <<>>

\* g1, synced by an earlier run, was started with unmodified files: the
\* pass pushed nothing, the entries keep their earlier lastSync
C9_Witness ==
  /\ starts["g1"] = 1
  /\ cleanSince["g1"]
  /\ tasks = <<>>
  /\ IsArmed("g1")
  /\ Len(fileHashes["g1"]) = 3
  /\ \A i \in 1..3 : fileHashes["g1"][i].lastSync < clock

\* C10 as stated: once an interval tick has pushed a change, the persisted
\* fileHashes of the group hold the fingerprint of the pushed content for
\* that path.
C10_IntervalKeepsHashes ==
  \A g \in HasGist : \A x \in tickPushed[g] :
    \E i \in 1..Len(persisted[g]) :
      /\ persisted[g][i].path = x[1]
      /\ persisted[g][i].hash = CalculateFileHash(x[2])

\* no two entries of a list of changes or of hashes have the same path
NoDuplicatePath(entries) ==
  \A i, j \in 1..Len(entries) : entries[i].path = entries[j].path => i = j

\* C18 as stated: the hash pass of a watchGroup call puts a path at most
\* once in changedFiles and at most one entry for it in the new hash
\* table, also when a path of files lies under a declared folder.
C18_PathEvaluatedOncePerPass ==
  \A i \in 1..Len(tasks) :
    tasks[i].kind = "start"
      => /\ NoDuplicatePath(tasks[i].changes)
         /\ NoDuplicatePath(tasks[i].newHashes)

\* C20 as stated: once fileHashes of a group holds an entry for a path it
\* holds one in every later state, also when the path was deleted and
\* another path of the group changed in the same pass.
C20_HashEntriesNeverDropped ==
  [][\A g \in GroupNames : \A p \in Paths :
       FindHash(fileHashes[g], p) # 0 => FindHash(fileHashes'[g], p) # 0]_vars

(***************************************************************************)
(* Properties of the Remote Merge Engine.                                  *)
(***************************************************************************)
RECURSIVE JoinPath(_)
JoinPath(segments) ==
  IF Len(segments) = 1 THEN segments[1]
  ELSE segments[1] \o "/" \o JoinPath(Tail(segments))

\* the watched folders a path falls under
FoldersOver(p, folders) ==
  {i \in 1..Len(folders) : StartsWith(p, folders[i]) /\ Len(p) > Len(folders[i])}

\* the remote file name the specification gives a changed path:
\* basename(folder)/path-relative-to-folder under a watched folder,
\* basename(path) otherwise
RemoteName(p, folders) ==
  IF FoldersOver(p, folders) = {} THEN Basename(p)
  ELSE LET folder == folders[CHOOSE i \in FoldersOver(p, folders) :
                               \A j \in FoldersOver(p, folders) : i <= j]
       IN  Basename(folder) \o "/" \o JoinPath(SubSeq(p, Len(folder) + 1, Len(p)))

RemoteNames == Names \cup {RemoteName(p, GroupFolders(g)) : p \in Paths, g \in GroupNames}

\* the content of the remote file n of a gist, Absent when it has none
FileOf(doc, n) == IF n \in DOMAIN doc.files THEN doc.files[n] ELSE Absent

\* the step is the successful end of the direct updateGist call i
CallSucceeds(i) == tasks[i].kind = "call" /\ UpdateSucceeds(i)

\* C11 as stated: a successful updateGist call leaves every remote file
\* that is neither the metadata file nor the remote name of one of its
\* changes with the content it had before the call, and removes none.
C11_MergePreservesOtherFiles ==
  [][\A i \in 1..Len(tasks) :
       CallSucceeds(i) =>
         LET g == tasks[i].group
             owned == {RemoteName(tasks[i].changes[k].path, GroupFolders(g)) :
                         k \in 1..Len(tasks[i].changes)}
         IN  \A n \in RemoteNames \ owned : FileOf(remote'[g], n) = FileOf(remote[g], n)]_vars

\* the watch list and version a metadata file records
WatchListOf(meta) ==
  IF meta = NoMeta THEN NoMeta
  ELSE [version |-> Parse(meta).version, watchedFiles |-> Parse(meta).watchedFiles]

\* C12 as stated: of two successful updateGist calls in a row with the same
\* changes, the second leaves the files other than the metadata file, and
\* the set of file names, as the first left them; of the metadata file
\* only the timestamp may differ.
C12_MergeIdempotence ==
  \A k \in 2..Len(merges) :
    (merges[k - 1].ok /\ merges[k].ok /\ merges[k].changes = merges[k - 1].changes)
      => /\ merges[k].doc.files = merges[k - 1].doc.files
         /\ (merges[k].doc.meta = NoMeta) = (merges[k - 1].doc.meta = NoMeta)
         /\ WatchListOf(merges[k].doc.meta) = WatchListOf(merges[k - 1].doc.meta)

\* the last change of a list for each path
LastChanges(changes) ==
  {changes[k] : k \in {k \in 1..Len(changes) :
                         \A j \in (k + 1)..Len(changes) : changes[j].path # changes[k].path}}

\* C19 as stated: a successful updateGist call stores each changed path
\* under basename(folder)/path-relative-to-folder when the path lies under
\* a watched folder of the group, under basename(path) otherwise.
C19_RemoteFileNaming ==
  /\ RemoteName(PathX, <<FolderD>>) = "d/x.txt"
  /\ [][\A i \in 1..Len(tasks) :
          CallSucceeds(i) =>
            \A c \in LastChanges(tasks[i].changes) :
              FileOf(remote'[tasks[i].group],
                     RemoteName(c.path, GroupFolders(tasks[i].group))) = c.content]_vars

(***************************************************************************)
(* Properties of the commands and the stored configuration.                *)
(***************************************************************************)
\* the step is the answer of the remote store to createGist
CreateGistSettles ==
  session.kind = "create" /\ session.pc = "creating" /\ session' # session

\* the step is the answer of the remote store to deleteGist
DeleteGistSettles ==
  session.kind = "remove" /\ session.pc = "deleting" /\ session' # session

\* watchedFolders of a metadata record, the empty list when it has none
WatchedFoldersOf(metadata) ==
  IF "watchedFolders" \in DOMAIN metadata THEN metadata.watchedFolders ELSE <<>>

\* C13 as stated: the metadata fetched right after a group's gist was
\* created has watchedFiles equal to the group's files, watchedFolders
\* equal to the group's folders and version equal to the tool's version.
C13_MetadataRoundTrip ==
  [][(CreateGistSettles /\ report' = "created") =>
       LET group == config'.groups[Len(config'.groups)]
           gist == store'.gists[group.gistId]
       IN  /\ gist.meta # NoMeta
           /\ GetGistMetadata(gist).watchedFiles = group.files
           /\ GetGistMetadata(gist).version = Version
           /\ WatchedFoldersOf(GetGistMetadata(gist)) = group.folders]_vars

\* name and gistId of the stored groups, in order
IdsOf(groups) ==
  [i \in 1..Len(groups) |-> [name |-> groups[i].name, gistId |-> groups[i].gistId]]

\* C14 as stated: a stored group keeps its gistId until the group is
\* removed: a step leaves the names and gistIds of the stored groups as
\* they are, or adds a group that has a gistId, or removes the groups of
\* one name; no stored group is without gistId.
C14_GistIdWriteOnce ==
  /\ [](\A i \in 1..Len(config.groups) : config.groups[i].gistId # NoGist)
  /\ [][\/ IdsOf(config'.groups) = IdsOf(config.groups)
        \/ /\ Len(config'.groups) = Len(config.groups) + 1
           /\ IdsOf(config'.groups) =
                Append(IdsOf(config.groups), IdsOf(config'.groups)[Len(config'.groups)])
        \/ \E name \in EnteredNames :
             IdsOf(config'.groups) = IdsOf(RemoveGroup(config.groups, name))]_vars

\* the ids the remote store has returned so far
IssuedIds == {NewGistId(n) : n \in 1..store.issued}

\* C15: when createGist fails the command ends with the failure reported
\* and the configuration and the store as they were; a group is added to
\* the configuration only by the step in which createGist succeeds, with
\* the id of the gist created in that step; every stored group has an id
\* the store returned.
C15_CreationAtomic ==
  /\ [](\A i \in 1..Len(config.groups) : config.groups[i].gistId \in IssuedIds)
  /\ [][/\ CreateGistSettles =>
             \/ report' = "created" /\ Len(config'.groups) = Len(config.groups) + 1
             \/ report' = "CreateFailed" /\ config' = config /\ store' = store
        /\ Len(config'.groups) > Len(config.groups) =>
             LET added == config'.groups[Len(config'.groups)]
             IN  /\ CreateGistSettles
                 /\ report' = "created"
                 /\ config'.groups = Append(config.groups, added)
                 /\ added.name = session.name
                 /\ added.gistId = NewGistId(store'.issued)
                 /\ added.gistId \in DOMAIN store'.gists \ DOMAIN store.gists]_vars

\* a create command has failed at createGist: nothing is stored
C15_Witness ==
  /\ report = "CreateFailed"
  /\ session = NoSession
  /\ config.groups = <<>>
  /\ store.issued = 0

\* C16: when deleteGist has answered, with success or with a failure, the
\* remove command ends with no group of the chosen name in the stored
\* configuration and the other groups as they were.
C16_RemovalRegardlessOfDelete ==
  [][DeleteGistSettles =>
       /\ session' = NoSession
       /\ report' \in {"removed", "removedDeleteFailed"}
       /\ \A i \in 1..Len(config'.groups) : config'.groups[i].name # session.name
       /\ config'.groups = SelectSeq(config.groups, LAMBDA g : g.name # session.name)]_vars

\* a remove command has ended after deleteGist failed: the gist is still
\* in the store, the group is gone from the configuration
C16_Witness ==
  /\ report = "removedDeleteFailed"
  /\ session = NoSession
  /\ config.groups = <<>>
  /\ DOMAIN store.gists # {}

\* C17 as stated: createGist is called only for a group with a file or a
\* folder, a name without path separator and a name no stored group has;
\* the stored configuration never holds two groups of the same name.
C17_InvalidGroupsRejected ==
  /\ [](\A i, j \in 1..Len(config.groups) :
          config.groups[i].name = config.groups[j].name => i = j)
  /\ [][(session'.pc = "creating" /\ session.pc # "creating") =>
          /\ Len(session'.files) + Len(session'.folders) > 0
          /\ Len(session'.name) > 0
          /\ "/" \notin Range(session'.name)
          /\ \A i \in 1..Len(config.groups) : config.groups[i].name # session'.name]_vars

(***************************************************************************)
(* Properties of the debounced handler and of overlapping handlers.        *)
(***************************************************************************)
\* the entries a hash table holds for a path
EntriesOf(hashes, p) == SelectSeq(hashes, LAMBDA e : e.path = p)

\* C21: when a debounce timer fires, the only updateGist call it makes
\* carries one file, the path of the most recent event of the window with
\* the content the file has at that moment; when that call succeeds, the
\* entries of fileHashes for every other path stay as they were.
C21_WindowPushesLastPath ==
  [][/\ \A t \in sched.armedTimers :
          (FiringOf(t) /\ tasks' # tasks) =>
            LET last == window[t.group][Len(window[t.group])]
            IN  tasks' = Append(tasks,
                                NewTask("debounce", t.group, "continuous",
                                        <<[path |-> last, content |-> fs[last]]>>, <<>>))
     /\ \A i \in 1..Len(tasks) :
          (tasks[i].kind = "debounce" /\ UpdateSucceeds(i)) =>
            /\ Len(tasks[i].changes) = 1
            /\ \A p \in Paths \ {tasks[i].changes[1].path} :
                 EntriesOf(fileHashes'[tasks[i].group], p) =
                   EntriesOf(fileHashes[tasks[i].group], p)]_vars

\* events for /tmp/a.txt and then /tmp/d/x.txt fell into one window of g1,
\* which an earlier run had synced; the push has succeeded and only the
\* entry of /tmp/d/x.txt was stamped again
C21_Witness ==
  /\ window["g1"] = <<PathA, PathX>>
  /\ TimersOf("g1") = {}
  /\ tasks = <<>>
  /\ Len(fileHashes["g1"]) = 3
  /\ fileHashes["g1"][FindHash(fileHashes["g1"], PathA)].lastSync = 0
  /\ fileHashes["g1"][FindHash(fileHashes["g1"], PathX)].lastSync = 1

\* the remote names an updateGist call writes its changes to
WrittenNames(changes) == {Basename(changes[k].path) : k \in 1..Len(changes)}

\* C22 as stated: of two updateGist calls of one group in flight together
\* with changes to different files, the one that writes last does not put
\* back older content of a file the other has written: a successful
\* update leaves every file outside its own changes with the content the
\* gist held just before it wrote.
C22_NoLostUpdate ==
  [][\A i \in 1..Len(tasks) :
       UpdateSucceeds(i) =>
         \A n \in Names \ WrittenNames(tasks[i].changes) :
           remote'[tasks[i].group].files[n] = remote[tasks[i].group].files[n]]_vars

\* the content a list of changes carries for a path: that of its last change
PushedContent(changes, p) ==
  changes[CHOOSE k \in 1..Len(changes) :
            /\ changes[k].path = p
            /\ \A j \in (k + 1)..Len(changes) : changes[j].path # p].content

\* C23 as stated: every FileHash entry the debounced handler or the hash
\* pass records when its updateGist call has succeeded is for a path of
\* that call and carries the digest of the content the call sent for it.
C23_FingerprintDescribesPushedContent ==
  [][\A i \in 1..Len(tasks) :
       (tasks[i].kind \in {"start", "debounce"} /\ UpdateSucceeds(i)) =>
         \A e \in Range(fileHashes'[tasks[i].group]) \ Range(fileHashes[tasks[i].group]) :
           /\ e.path \in ChangedPaths(tasks[i].changes)
           /\ e.hash = CalculateFileHash(PushedContent(tasks[i].changes, e.path))]_vars

(***************************************************************************)
(* A caller that starts a group again while it is watched, with the same  *)
(* or another intervalMinutes argument.                                    *)
(***************************************************************************)
MaxStarts == 2

\* the caller passes another intervalMinutes argument to its next
\* watchGroup call than to the one before
SwitchMode(how) ==
  /\ ~disposed
  /\ mode # how
  /\ mode' = how
  /\ UNCHANGED <<fs, fileHashes, persisted, remote, sched, tasks, clock, thrown, disposed,
                 writes, starts, burst, window, unpushed, tickPushed, cleanSince,
                 lateCall, merges>>
  /\ UNCHANGED cliVars

\* the group the caller starts again, and the calls it makes per group
Restartable == {"g1"}
StartLimit(g) == IF g \in Restartable THEN MaxStarts ELSE 1

Restarts == \E g \in GroupNames : WatchGroup(g, StartLimit(g))
Switches == \E how \in Modes : SwitchMode(how)

NextRestart ==
  \/ Restarts
  \/ Switches
  \/ Fetches
  \/ Updates
  \/ Fails
  \/ Ticks
  \/ Events
  \/ Fires
  \/ Stops
  \/ Dispose

SpecRestart == Init /\ [][NextRestart]_vars

LiveIntervalsOf(s, g) == {h \in s.liveIntervals : h.group = g}
LiveWatchersOf(s, g) == {h \in s.liveWatchers : h.group = g}

\* C24 as stated: whatever the sequence of start, stop and dispose calls,
\* with groups started more than once and in different modes, each group
\* has at most one live interval timer or filesystem subscription, every
\* live one is the one recorded for its group in intervalTimers or
\* watchers, and unwatchGroup(g) leaves none live for g.
C24_OneArmedSourcePerGroup ==
  \A g \in GroupNames :
    /\ Cardinality(LiveIntervalsOf(sched, g)) + Cardinality(LiveWatchersOf(sched, g)) <= 1
    /\ \A h \in LiveIntervalsOf(sched, g) : sched.intervalTimers[g] = h.id
    /\ \A h \in LiveWatchersOf(sched, g) : sched.watchers[g] = h.id
    /\ LET once == UnwatchGroup(sched, g)
       IN  LiveIntervalsOf(once, g) \cup LiveWatchersOf(once, g) = {}

====
